---- MODULE Spec2Model ----
(***************************************************************************)
(* Model of the github-personal-assistant: the session loop of             *)
(* src/index.js (main), the assistant/tools graph it compiles with a       *)
(* MemorySaver checkpointer, the prebuilt ToolNode, and the eight tool     *)
(* functions of src/tools.js.                                              *)
(*                                                                         *)
(* The language model (llm.invoke), the GitHub API (octokit) and the local *)
(* git binary (simple-git) are the environment: the model answers, asks    *)
(* for tools or fails; each collaborator call returns or raises.           *)
(***************************************************************************)
EXTENDS Naturals, Sequences, FiniteSets, Bags, TLC

VARIABLES
    mainPc,      \* main(): "read" (await rl.question), "invoke" (await agent.invoke), "closed", "crashed"
    session,     \* messages channel checkpointed by MemorySaver under thread_id "1"
    next,        \* node the graph runs next inside agent.invoke: "idle", "assistant", "tools"
    step,        \* supersteps run by the current agent.invoke
    tasks,       \* the ToolNode's Promise.all: one entry per tool call of the last message
    turn,        \* utterances that started a turn so far
    fault,       \* the rejection agent.invoke ended with, "none" when it never rejected
    printed,     \* the content main last wrote with console.log ("AI: ", ...)
    perpetual,   \* the model asks for a tool on every call from here on
    lenBefore,   \* Len(session) when the current turn's agent.invoke was called
    activeTurns, \* agent.invoke calls not yet settled
    execBag,     \* bag of tool-call ids whose tool function was invoked
    raised,      \* <<id, op>>: collaborator call op raised while tool call id ran, for
                 \* the calls of the latest round
    llmInput,    \* the messages handed to the latest llm.invoke
    runs,        \* the runs of tool functions in the latest round: what each was given,
                 \* what the collaborators did, the calls it made, what it returned
    lastLine     \* the line main read last

vars == <<mainPc, session, next, step, tasks, turn, fault, printed, perpetual,
          lenBefore, activeTurns, execBag, raised, llmInput, runs, lastLine>>

(***************************************************************************)
(* Bounds of the model.                                                    *)
(***************************************************************************)
\* utterances other than the sentinel read in one session
MaxTurns == 2
\* rounds of tool calls the model may ask for in one session, outside the
\* perpetual requester
MaxRounds == 2

\* agent.invoke is called without recursionLimit: the graph's default of 25 supersteps
RecursionLimit == 25

(***************************************************************************)
(* src/tools.js: values, schemas and the tool functions.                   *)
(*                                                                         *)
(* An argument value is [t, v]: its JavaScript type and its text.  An      *)
(* argument bundle is a function from the field names it carries.          *)
(***************************************************************************)
Str(v) == [t |-> "string", v |-> v]
Num(v) == [t |-> "number", v |-> v]

\* z.string()
IsString(x) == x.t = "string"

\* z.enum([...]): a string among the listed ones
IsEnum(x, allowed) == x.t = "string" /\ x.v \in allowed

VisibilityEnum == {"public", "private", "internal"}

\* the schema: z.object({...}) of each tool: required strings, optional strings, optional enums
ToolSchema(name) ==
    CASE name = "create-git-respository" ->
            [required |-> {"repoName", "description"}, optional |-> {}, enums |-> {}]
      [] name = "git-push-files" ->
            [required |-> {"repoName", "commitMessage", "projectName"}, optional |-> {}, enums |-> {}]
      [] name = "create-or-update-file" ->
            [required |-> {"fileName", "repoName"}, optional |-> {}, enums |-> {}]
      [] name = "Update-git-repository" ->
            [required |-> {"repoName"}, optional |-> {"description"}, enums |-> {"visibility"}]
      [] OTHER ->
            [required |-> {"repoName"}, optional |-> {}, enums |-> {}]

\* a schema that accepts every bundle
SchemaAcceptsAnything(schema, args) == TRUE

\* zod's parse of an argument bundle against a z.object: every required field is
\* present and a string, an optional field is absent or well typed
SchemaAccepts(schema, args) ==
    /\ \A f \in schema.required : f \in DOMAIN args /\ IsString(args[f])
    /\ \A f \in schema.optional : f \in DOMAIN args => IsString(args[f])
    /\ \A f \in schema.enums : f \in DOMAIN args => IsEnum(args[f], VisibilityEnum)

\* the fields the parsed bundle keeps (z.object strips unknown keys)
SchemaFields(schema) == schema.required \cup schema.optional \cup schema.enums

SchemaParse(schema, args) ==
    [f \in (DOMAIN args) \cap SchemaFields(schema) |-> args[f]]

(***************************************************************************)
(* A tool function is a try block of awaited collaborator calls and a      *)
(* catch that logs; the statement after the try/catch returns the failure  *)
(* string.  env says what the collaborators do during this run:            *)
(*   raises     the calls that raise when made                             *)
(*   hasMain    git.branchLocal() lists "main"                             *)
(*   hasOrigin  git.getRemotes() lists "origin"                            *)
(*   status     the status of the delete response                          *)
(* RunCalls makes the calls of one try block in order: a call that raises  *)
(* ends the block, except one wrapped in its own try/catch (inner |-> TRUE) *)
(***************************************************************************)
Call(op) == [op |-> op, inner |-> FALSE]
InnerTry(op) == [op |-> op, inner |-> TRUE]

RECURSIVE RunCalls(_, _, _, _, _)
RunCalls(calls, i, env, trace, rs) ==
    IF i > Len(calls)
    THEN [completed |-> TRUE, trace |-> trace, raised |-> rs]
    ELSE LET c == calls[i] IN
         IF c.op \in env.raises
         THEN IF c.inner
              THEN RunCalls(calls, i + 1, env, Append(trace, c.op), rs \cup {c.op})
              ELSE [completed |-> FALSE, trace |-> Append(trace, c.op), raised |-> rs \cup {c.op}]
         ELSE RunCalls(calls, i + 1, env, Append(trace, c.op), rs)

\* the success string returned after the try/catch, whatever happened inside it
ToolReturnAlwaysOk(run, ok, okText, failText) ==
    [kind   |-> "success",
     text   |-> okText,
     trace  |-> run.trace,
     raised |-> run.raised]

\* what a tool function hands back: the returned string, classified, and what it did
ToolReturn(run, ok, okText, failText) ==
    [kind   |-> IF ok THEN "success" ELSE "failure",
     text   |-> IF ok THEN okText ELSE failText,
     trace  |-> run.trace,
     raised |-> run.raised]

createGitRepository(params, env) ==
    LET run == RunCalls(<<Call("POST /user/repos")>>, 1, env, <<>>, {})
    IN  ToolReturn(run, run.completed,
                   "git repository created successfully!! ",
                   "Not able to create git repository, try again later")

deleteRepository(params, env) ==
    LET run == RunCalls(<<Call("users.getAuthenticated"), Call("repos.delete")>>,
                        1, env, <<>>, {})
    IN  ToolReturn(run, run.completed /\ env.status = 204,
                   "Repository deleted successfully!",
                   "Not able to delete the repository")

getRepository(params, env) ==
    LET run == RunCalls(<<Call("users.getAuthenticated"), Call("repos.get")>>,
                        1, env, <<>>, {})
    IN  ToolReturn(run, run.completed,
                   "JSON.stringify(repoDetails)",
                   "Not able to fetch more details of the repository")

\* the pull made like every other call of the try block, without a try/catch of its own
gitPushPullFatal(params, env) ==
    LET calls ==
            <<Call("users.getAuthenticated"), Call("repos.get"),
              Call("git.init"), Call("git.add"), Call("git.commit"),
              Call("git.branchLocal")>>
            \o (IF env.hasMain THEN <<Call("git.checkout")>>
                               ELSE <<Call("git.checkoutLocalBranch")>>)
            \o <<Call("git.getRemotes")>>
            \o (IF env.hasOrigin THEN <<Call("git.removeRemote")>> ELSE <<>>)
            \o <<Call("git.addRemote"), Call("git.pull"), Call("git.push")>>
        run == RunCalls(calls, 1, env, <<>>, {})
    IN  ToolReturn(run, run.completed,
                   "Files pushed successfully!",
                   "Git push operation failed")

gitPush(params, env) ==
    LET calls ==
            <<Call("users.getAuthenticated"), Call("repos.get"),
              Call("git.init"), Call("git.add"), Call("git.commit"),
              Call("git.branchLocal")>>
            \o (IF env.hasMain THEN <<Call("git.checkout")>>
                               ELSE <<Call("git.checkoutLocalBranch")>>)
            \o <<Call("git.getRemotes")>>
            \o (IF env.hasOrigin THEN <<Call("git.removeRemote")>> ELSE <<>>)
            \o <<Call("git.addRemote"), InnerTry("git.pull"), Call("git.push")>>
        run == RunCalls(calls, 1, env, <<>>, {})
    IN  ToolReturn(run, run.completed,
                   "Files pushed successfully!",
                   "Git push operation failed")

gitCloneRepository(params, env) ==
    LET run == RunCalls(<<Call("users.getAuthenticated"), Call("repos.get"),
                          Call("git.clone")>>, 1, env, <<>>, {})
    IN  ToolReturn(run, run.completed,
                   "Repo cloned into your local file path",
                   "repo cloning is failed")

getCommitsByRepoName(params, env) ==
    LET run == RunCalls(<<Call("users.getAuthenticated"), Call("repos.listCommits")>>,
                        1, env, <<>>, {})
    IN  ToolReturn(run, run.completed,
                   "JSON.stringify(commitMessages)",
                   "Not able to fetch commit details")

createOrUpdateGitFile(params, env) ==
    LET run == RunCalls(<<Call("users.getAuthenticated"),
                          Call("repos.createOrUpdateFileContents")>>, 1, env, <<>>, {})
    IN  ToolReturn(run, run.completed,
                   "File added successfully!. ",
                   "Neither file created or updated")

\* a field the bundle does not carry reads as undefined
Undefined == [t |-> "undefined", v |-> ""]

Field(params, f) == IF f \in DOMAIN params THEN params[f] ELSE Undefined

\* what updateRepository sends with octokit.rest.repos.update besides owner and repo
updatePayload(params) ==
    [description |-> Field(params, "description"),
     visibility  |-> Field(params, "visibility"),
     private     |-> (Field(params, "visibility") = Str("private"))]

\* the repository's visibility once the update is applied: the visibility sent, or
\* else what the private flag sent says
RepoAfterUpdate(before, payload) ==
    IF payload.visibility # Undefined THEN payload.visibility.v
    ELSE IF payload.private THEN "private" ELSE "public"

updateRepository(params, env) ==
    LET run == RunCalls(<<Call("users.getAuthenticated"), Call("repos.update")>>,
                        1, env, <<>>, {})
    IN  ToolReturn(run, run.completed,
                   "Git repository updated successfully!",
                   "Not able to update the repository")

\* const tools = [...]: the registered tools, by the name each declares
tools ==
    <<"create-git-respository", "delete-git-respository", "get-repository-details",
      "git-push-files", "clone-git-repository", "get-git-commits-by-repo-name",
      "create-or-update-file", "Update-git-repository">>

ToolNames == {tools[i] : i \in 1..Len(tools)}

\* the function registered under a name
ToolFunc(name, params, env) ==
    CASE name = "create-git-respository" -> createGitRepository(params, env)
      [] name = "delete-git-respository" -> deleteRepository(params, env)
      [] name = "get-repository-details" -> getRepository(params, env)
      [] name = "git-push-files" -> gitPush(params, env)
      [] name = "clone-git-repository" -> gitCloneRepository(params, env)
      [] name = "get-git-commits-by-repo-name" -> getCommitsByRepoName(params, env)
      [] name = "create-or-update-file" -> createOrUpdateGitFile(params, env)
      [] name = "Update-git-repository" -> updateRepository(params, env)


(***************************************************************************)
(* What the collaborators may do during one run of a tool function.        *)
(***************************************************************************)
NoRaise(m, o) ==
    [raises |-> {}, hasMain |-> m, hasOrigin |-> o, status |-> 204, visibility |-> "public"]

\* the collaborator calls a run makes when none raises
CallsMade(name, m, o) ==
    LET t == ToolFunc(name, <<>>, NoRaise(m, o)).trace
    IN  {t[i] : i \in 1..Len(t)}

\* at most one call raises, or the pull and the push both do
RaiseSets(name, m, o) ==
    {{}} \cup {{op} : op \in CallsMade(name, m, o)}
         \cup (IF name = "git-push-files" THEN {{"git.pull", "git.push"}} ELSE {})

Envs(name) ==
    LET flags == IF name = "git-push-files" THEN BOOLEAN ELSE {FALSE}
        codes == IF name = "delete-git-respository" THEN {204, 202} ELSE {204}
        vis   == IF name = "Update-git-repository" THEN {"public", "private"} ELSE {"public"}
    IN  UNION {UNION {{[raises |-> r, hasMain |-> m, hasOrigin |-> o, status |-> c,
                        visibility |-> v] :
                          r \in RaiseSets(name, m, o), c \in codes, v \in vis} :
                      m \in flags} : o \in flags}

(***************************************************************************)
(* Messages of the session.  content is [kind, text]; tool_calls and       *)
(* tool_call_id are those of an AIMessage and of a ToolMessage; turn is the *)
(* turn whose agent.invoke appended the message.                           *)
(***************************************************************************)
Message(role, t, kind, text, calls, id, name) ==
    [role |-> role, turn |-> t, content |-> [kind |-> kind, text |-> text],
     tool_calls |-> calls, tool_call_id |-> id, name |-> name]

SystemMessage(t) ==
    Message("system", t, "prompt",
            "You are a smart github personal assistant to create and manage github repositories.",
            <<>>, 0, "")

UserMessage(t, query) == Message("user", t, "utterance", query, <<>>, 0, "")

AIMessage(t, kind, text, calls) == Message("assistant", t, kind, text, calls, 0, "")

ToolMessage(t, kind, text, call) == Message("tool", t, kind, text, <<>>, call.id, call.name)

RECURSIVE CountCalls(_)
CountCalls(msgs) ==
    IF msgs = <<>> THEN 0
    ELSE Len(msgs[1].tool_calls) + CountCalls(Tail(msgs))

\* assistant messages of the session that carry tool calls
Rounds(msgs) == Cardinality({i \in 1..Len(msgs) : Len(msgs[i].tool_calls) > 0})

(***************************************************************************)
(* The language model's repertoire: the tool-call lists it may answer with *)
(***************************************************************************)
Ask(name, args) == [name |-> name, args |-> args]

Repo == [repoName |-> Str("demo")]

ValidArgs(name) ==
    CASE name = "create-git-respository" ->
            [repoName |-> Str("demo"), description |-> Str("test")]
      [] name = "git-push-files" ->
            [repoName |-> Str("demo"), commitMessage |-> Str("init"), projectName |-> Str("app")]
      [] name = "create-or-update-file" ->
            [fileName |-> Str("hello.txt"), repoName |-> Str("demo")]
      [] name = "Update-git-repository" ->
            [repoName |-> Str("demo"), description |-> Str("new"), visibility |-> Str("private")]
      [] OTHER -> Repo

\* a name no tool declares
UnknownTool == "list-repositories"

TrivialAsk == <<Ask("get-repository-details", Repo)>>

CoreCatalog ==
    { TrivialAsk,
      <<Ask("delete-git-respository", Repo), Ask(UnknownTool, Repo)>> }

FullCatalog ==
    {<<Ask(n, ValidArgs(n))>> : n \in ToolNames}
    \cup CoreCatalog
    \cup { <<Ask(UnknownTool, Repo)>>,
           <<Ask("Update-git-repository", [repoName |-> Str("demo"), description |-> Str("new")])>>,
           <<Ask("Update-git-repository", [repoName |-> Str("demo"), visibility |-> Str("secret")])>>,
           <<Ask("create-git-respository", [repoName |-> Str("demo")])>>,
           <<Ask("delete-git-respository", [repoName |-> Num("7")])>>,
           <<Ask("create-git-respository", ValidArgs("create-git-respository")),
             Ask("git-push-files", ValidArgs("git-push-files")),
             Ask("Update-git-repository", [repoName |-> Str("demo"), visibility |-> Str("secret")])>> }

\* the session's first round of tool calls draws on the full catalogue, later ones on the core
Catalog(msgs) == IF Rounds(msgs) = 0 THEN FullCatalog ELSE CoreCatalog

\* the calls of a response: the asks, each under a fresh correlation identifier
ToolCalls(asks, msgs) ==
    [i \in 1..Len(asks) |->
        [id |-> CountCalls(msgs) + i, name |-> asks[i].name, args |-> asks[i].args]]

\* the lines main may read: the sentinel and near misses of it, the one with a
\* trailing blank as a session's first line only
Sentinel == "bye"
Utterances == {"Bye", ""}
FirstUtterances == Utterances \cup {"bye "}


(***************************************************************************)
(* src/index.js: the graph.                                                *)
(***************************************************************************)
Last(msgs) == msgs[Len(msgs)]

\* the conditional edge always ends the run
shouldContinueAlwaysEnd(msgs) == "__end__"

\* const shouldContinue = (state) => ...
shouldContinue(msgs) ==
    IF Len(Last(msgs).tool_calls) > 0 THEN "tools" ELSE "__end__"

\* the graph stops a run that needs more supersteps than its recursion limit
OutOfSteps == step >= RecursionLimit

\* main is past "await agent.invoke(...)" only when the call has settled
Awaiting == mainPc = "invoke"

\* the "assistant" node may run
AssistantReady == Awaiting /\ next = "assistant" /\ ~OutOfSteps

\* callModel returns { messages: [response] } and the messages reducer appends it;
\* the conditional edge then picks the next node
AppendResponse(response) ==
    /\ session' = Append(session, response)
    /\ step' = step + 1
    /\ next' = IF shouldContinue(session') = "tools" THEN "tools" ELSE "idle"

\* agent.invoke resolves: main logs the content of the last message and loops
InvokeReturns ==
    /\ printed' = Last(session').content
    /\ mainPc' = "read"
    /\ activeTurns' = activeTurns - 1

\* agent.invoke rejects: main has no handler, the rejection leaves main() and
\* ends the process
InvokeRejects(error) ==
    /\ fault' = error
    /\ mainPc' = "crashed"
    /\ next' = "idle"
    /\ activeTurns' = activeTurns - 1

\* callModel handing the model the messages of the current turn only
CallModelInputTurnOnly == SubSeq(session, lenBefore + 1, Len(session))

\* callModel: llm.invoke(state.messages)
CallModelInput == session

\* llm.invoke answers without tool calls
ModelAnswers ==
    /\ AssistantReady
    /\ ~perpetual
    /\ llmInput' = CallModelInput
    /\ AppendResponse(AIMessage(turn, "answer", "final answer", <<>>))
    /\ InvokeReturns
    /\ raised' = {}
    /\ runs' = {}
    /\ UNCHANGED <<tasks, turn, fault, perpetual, lenBefore, execBag, lastLine>>

\* llm.invoke answers with tool calls
ModelRequests ==
    /\ AssistantReady
    /\ \/ /\ ~perpetual
          /\ Rounds(session) < MaxRounds
          /\ \E asks \in Catalog(session) :
                AppendResponse(AIMessage(turn, "tool_calls", "", ToolCalls(asks, session)))
          /\ UNCHANGED perpetual
       \/ /\ perpetual \/ (step = 0 /\ Rounds(session) = 0)
          /\ perpetual' = TRUE
          /\ AppendResponse(AIMessage(turn, "tool_calls", "", ToolCalls(TrivialAsk, session)))
    /\ llmInput' = CallModelInput
    /\ raised' = {}
    /\ runs' = {}
    /\ UNCHANGED <<mainPc, tasks, turn, fault, printed, lenBefore, activeTurns, execBag,
                   lastLine>>

\* llm.invoke raises: callModel has no handler, the node fails and agent.invoke rejects
ModelFails ==
    /\ AssistantReady
    /\ llmInput' = CallModelInput
    /\ InvokeRejects("EngineFault")
    /\ UNCHANGED <<session, step, tasks, turn, printed, perpetual, lenBefore, execBag, raised,
                   runs, lastLine>>

\* a node is due and the recursion limit is used up
RecursionError ==
    /\ Awaiting
    /\ next \in {"assistant", "tools"}
    /\ tasks = <<>>
    /\ OutOfSteps
    /\ InvokeRejects("GraphRecursionError")
    /\ UNCHANGED <<session, step, tasks, turn, printed, perpetual, lenBefore, execBag, raised,
                   llmInput, runs, lastLine>>

(***************************************************************************)
(* The "tools" node: new ToolNode(tools).  It maps the tool calls of the   *)
(* last message to promises, awaits Promise.all of them and returns the    *)
(* ToolMessages in the order of the calls.                                 *)
(***************************************************************************)
Pending == [done |-> FALSE, out |-> ToolMessage(0, "", "", [id |-> 0, name |-> ""]),
            ran |-> FALSE, raised |-> {}, thrown |-> FALSE]

\* a ToolNode built with handleToolErrors: false: the error leaves the node
CatchToolErrorRethrow(call, error) ==
    [done |-> TRUE, out |-> ToolMessage(turn, error, call.name, call),
     ran |-> FALSE, raised |-> {}, thrown |-> TRUE]

\* the ToolNode's catch (handleToolErrors is left at its default, true): what a
\* tool call throws becomes the content of an "Error: ..." ToolMessage
CatchToolError(call, error) ==
    [done |-> TRUE, out |-> ToolMessage(turn, error, call.name, call),
     ran |-> FALSE, raised |-> {}, thrown |-> FALSE]

\* one promise of the ToolNode: find the tool by name, let it parse the arguments
\* against its schema and run its function; the string returned is the content of
\* the ToolMessage, under the call's id
RunToolCall(call, env) ==
    IF call.name \notin ToolNames
    THEN CatchToolError(call, "not_found")
    ELSE IF ~SchemaAccepts(ToolSchema(call.name), call.args)
    THEN CatchToolError(call, "invalid_input")
    ELSE LET r == ToolFunc(call.name, SchemaParse(ToolSchema(call.name), call.args), env)
         IN  [done |-> TRUE, out |-> ToolMessage(turn, r.kind, r.text, call),
              ran |-> TRUE, raised |-> r.raised, thrown |-> FALSE]

\* Promise.race in place of Promise.all: the first promise to settle ends the wait
AnySettled(ts) == \E i \in 1..Len(ts) : ts[i].done

\* Promise.all settles when every promise has
AllSettled(ts) == \A i \in 1..Len(ts) : ts[i].done

\* the node starts: one pending promise per tool call of the last message
StartTools ==
    /\ Awaiting
    /\ next = "tools"
    /\ tasks = <<>>
    /\ ~OutOfSteps
    /\ tasks' = [i \in 1..Len(Last(session).tool_calls) |-> Pending]
    /\ step' = step + 1
    /\ UNCHANGED <<mainPc, session, next, turn, fault, printed, perpetual, lenBefore,
                   activeTurns, execBag, raised, llmInput, runs, lastLine>>

\* what the collaborators may do while a call runs; under the perpetual requester
\* the trivial call always succeeds
CallEnvs(call) ==
    IF call.name \in ToolNames /\ ~perpetual
    THEN Envs(call.name)
    ELSE {NoRaise(FALSE, FALSE)}

\* what a run of a tool function was given, met and did; visibility is the
\* repository's visibility after the run
RunRecord(call, env) ==
    LET params == SchemaParse(ToolSchema(call.name), call.args)
        r == ToolFunc(call.name, params, env)
    IN  [id |-> call.id, name |-> call.name, params |-> params, env |-> env,
         trace |-> r.trace, kind |-> r.kind,
         visibility |-> IF call.name = "Update-git-repository" /\ r.kind = "success"
                        THEN RepoAfterUpdate(env.visibility, updatePayload(params))
                        ELSE env.visibility]

\* a call is run whether or not its promise has settled
Rerunnable(ts, i) == TRUE

\* the node maps each tool call to one promise: a call runs once
Unsettled(ts, i) == ~ts[i].done

\* one of the promises settles
RunTool ==
    /\ Awaiting
    /\ next = "tools"
    /\ \E i \in 1..Len(tasks) :
        /\ Unsettled(tasks, i)
        /\ LET call == Last(session).tool_calls[i] IN
           \E env \in CallEnvs(call) :
             LET t == RunToolCall(call, env) IN
               /\ tasks' = [tasks EXCEPT ![i] = t]
               /\ execBag' = IF t.ran THEN execBag (+) SetToBag({call.id}) ELSE execBag
               /\ raised' = raised \cup {<<call.id, op>> : op \in t.raised}
               /\ runs' = IF t.ran THEN runs \cup {RunRecord(call, env)} ELSE runs
               /\ IF t.thrown
                  THEN InvokeRejects("ToolFault")
                  ELSE UNCHANGED <<mainPc, next, fault, activeTurns>>
    /\ UNCHANGED <<session, step, turn, printed, perpetual, lenBefore, llmInput, lastLine>>

\* only the first output appended
JoinToolsFirstOnly ==
    /\ Awaiting
    /\ next = "tools"
    /\ tasks # <<>>
    /\ AllSettled(tasks)
    /\ session' = Append(session, tasks[1].out)
    /\ tasks' = <<>>
    /\ next' = "assistant"
    /\ UNCHANGED <<mainPc, step, turn, fault, printed, perpetual, lenBefore,
                   activeTurns, execBag, raised, llmInput, runs, lastLine>>

\* the outputs appended last call first
JoinToolsReversed ==
    /\ Awaiting
    /\ next = "tools"
    /\ tasks # <<>>
    /\ AllSettled(tasks)
    /\ session' = session \o [i \in 1..Len(tasks) |-> tasks[Len(tasks) + 1 - i].out]
    /\ tasks' = <<>>
    /\ next' = "assistant"
    /\ UNCHANGED <<mainPc, step, turn, fault, printed, perpetual, lenBefore,
                   activeTurns, execBag, raised, llmInput, runs, lastLine>>

\* Promise.all has settled: the node returns the outputs, the reducer appends them
\* and the edge back to "assistant" is taken
JoinTools ==
    /\ Awaiting
    /\ next = "tools"
    /\ tasks # <<>>
    /\ AllSettled(tasks)
    /\ session' = session \o [i \in 1..Len(tasks) |-> tasks[i].out]
    /\ tasks' = <<>>
    /\ next' = "assistant"
    /\ UNCHANGED <<mainPc, step, turn, fault, printed, perpetual, lenBefore,
                   activeTurns, execBag, raised, llmInput, runs, lastLine>>

(***************************************************************************)
(* src/index.js: main.                                                     *)
(***************************************************************************)
\* agent.invoke called without await: main reads on while the turn runs
CanReadNoAwait == mainPc \in {"read", "invoke"}

\* main is at "await rl.question(...)"
CanRead == mainPc = "read"

\* the line compared after trimming blanks and folding case
IsSentinelLoose(query) == query \in {Sentinel, "Bye", "bye "}

\* query === "bye"
IsSentinel(query) == query = Sentinel

\* the lines main may read
Lines == (IF turn = 0 THEN FirstUtterances ELSE Utterances) \cup {Sentinel}

\* the system message submitted with the session's first turn only
InvokeInputSystemOnce(t, query) ==
    IF t = 1 THEN <<SystemMessage(t), UserMessage(t, query)>> ELSE <<UserMessage(t, query)>>

\* the messages main submits with a turn: the system prompt, then the line read
InvokeInput(t, query) == <<SystemMessage(t), UserMessage(t, query)>>

\* the line read is the sentinel: break, rl.close()
ReadBye ==
    /\ CanRead
    /\ \E query \in Lines :
        /\ IsSentinel(query)
        /\ lastLine' = query
    /\ mainPc' = "closed"
    /\ UNCHANGED <<session, next, step, tasks, turn, fault, printed, perpetual,
                   lenBefore, activeTurns, execBag, raised, llmInput, runs>>

\* any other line: agent.invoke({messages: [system, user]}, thread "1"); the
\* graph's start appends both to the checkpointed messages
ReadAndInvoke ==
    /\ CanRead
    /\ turn < MaxTurns
    /\ \E query \in Lines :
        /\ ~IsSentinel(query)
        /\ lastLine' = query
        /\ session' = session \o InvokeInput(turn + 1, query)
    /\ turn' = turn + 1
    /\ lenBefore' = Len(session)
    /\ mainPc' = "invoke"
    /\ next' = "assistant"
    /\ step' = 0
    /\ activeTurns' = activeTurns + 1
    /\ UNCHANGED <<tasks, fault, printed, perpetual, execBag, raised, llmInput, runs>>

Init ==
    /\ mainPc = "read"
    /\ session = <<>>
    /\ next = "idle"
    /\ step = 0
    /\ tasks = <<>>
    /\ turn = 0
    /\ fault = "none"
    /\ printed = [kind |-> "", text |-> ""]
    /\ perpetual = FALSE
    /\ lenBefore = 0
    /\ activeTurns = 0
    /\ execBag = EmptyBag
    /\ raised = {}
    /\ llmInput = <<>>
    /\ runs = {}
    /\ lastLine = ""

Next ==
    \/ ReadBye
    \/ ReadAndInvoke
    \/ ModelAnswers
    \/ ModelRequests
    \/ ModelFails
    \/ RecursionError
    \/ StartTools
    \/ RunTool
    \/ JoinTools

Spec == Init /\ [][Next]_vars


(***************************************************************************)
(* Properties.                                                             *)
(***************************************************************************)
\* the assistant messages of msgs that carry tool calls
Asking(msgs) == {k \in 1..Len(msgs) : Len(msgs[k].tool_calls) > 0}

\* the messages right after msgs[k] are the results of its calls, one per call,
\* in the order of the calls and under their ids, and no further result follows
ResultsFollow(msgs, k) ==
    LET n == Len(msgs[k].tool_calls) IN
    /\ Len(msgs) >= k + n
    /\ \A i \in 1..n :
          /\ msgs[k + i].role = "tool"
          /\ msgs[k + i].tool_call_id = msgs[k].tool_calls[i].id
    /\ (Len(msgs) > k + n => msgs[k + n + 1].role # "tool")

\* tool messages of msgs that answer call id
Answers(msgs, id) == {j \in 1..Len(msgs) : msgs[j].role = "tool" /\ msgs[j].tool_call_id = id}

\* C1: every assistant message with N >= 1 tool calls is directly followed by
\* exactly N tool messages, the i-th under the id of the i-th call, by the time the
\* assistant node is due again; until then it is the last message of the session.
C1_RequestResultPairing ==
    \A k \in Asking(session) :
        \/ ResultsFollow(session, k)
        \/ k = Len(session) /\ next # "assistant"

\* a round of several calls has been joined and the model is about to be called
C1_Witness ==
    /\ Awaiting
    /\ next = "assistant"
    /\ \E k \in Asking(session) :
          /\ Len(session[k].tool_calls) >= 2
          /\ k + Len(session[k].tool_calls) = Len(session)
          /\ ResultsFollow(session, k)

\* C2: whenever no turn is running (final answer, recursion limit, model fault),
\* every tool call of the session has exactly one tool message under its id.
C2_NoDanglingRequest ==
    ~Awaiting =>
        \A k \in Asking(session) : \A i \in 1..Len(session[k].tool_calls) :
            Cardinality(Answers(session, session[k].tool_calls[i].id)) = 1

\* C3: while a tool call of the running round is still pending, no step appends to
\* the session or leaves the tools node.
C3_Barrier ==
    [][(\E i \in 1..Len(tasks) : ~tasks[i].done) => (session' = session /\ next' = "tools")]_vars

\* the second call of a round has settled while the first is pending
C3_Witness ==
    /\ Len(tasks) >= 2
    /\ tasks[2].done
    /\ ~tasks[1].done


\* the collaborator calls that raised while call id ran
RaisedIn(id) == {p[2] : p \in {q \in raised : q[1] = id}}

ToolMessages(msgs) == {j \in 1..Len(msgs) : msgs[j].role = "tool"}

\* after a round is joined the model is called next
RoundProceeds == (Awaiting /\ Last(session).role = "tool") => (next = "assistant" /\ tasks = <<>>)

\* C4 as stated: a tool call during which any collaborator call raised has a
\* failure result, the result is appended and the turn goes on to the next model call.
C4_AnyRaiseYieldsFailure ==
    /\ \A j \in ToolMessages(session) :
          RaisedIn(session[j].tool_call_id) # {} => session[j].content.kind = "failure"
    /\ fault # "ToolFault"
    /\ RoundProceeds

\* C4 amended: a tool call during which a collaborator call other than the push
\* tool's pull raised has a failure result; whatever raised, once the round is
\* joined the call has exactly one result in the session, no tool fault ends the
\* turn and the model is called next.
C4_FaultsBecomeResults ==
    /\ \A j \in ToolMessages(session) :
          RaisedIn(session[j].tool_call_id) \ {"git.pull"} # {}
              => session[j].content.kind = "failure"
    /\ \A p \in raised :
          (tasks = <<>>) => Cardinality(Answers(session, p[1])) = 1
    /\ fault # "ToolFault"
    /\ RoundProceeds

\* a joined round holds a failure after a raise and a success after a raise of the
\* pull alone, and the model is due
C4_Witness ==
    /\ Awaiting
    /\ next = "assistant"
    /\ Last(session).role = "tool"
    /\ \E j \in ToolMessages(session) :
          /\ RaisedIn(session[j].tool_call_id) \ {"git.pull"} # {}
          /\ session[j].content.kind = "failure"
    /\ \E j \in ToolMessages(session) :
          /\ RaisedIn(session[j].tool_call_id) = {"git.pull"}
          /\ session[j].content.kind = "success"

\* C5: a call whose name no tool declares runs no tool function; its result is the
\* not-found error naming it, appended once when the round is joined; no tool
\* fault ends the turn and the model is called next.
C5_UnknownActionRecoverable ==
    /\ \A k \in Asking(session) : \A i \in 1..Len(session[k].tool_calls) :
          LET call == session[k].tool_calls[i] IN
          call.name \notin ToolNames =>
              /\ ~BagIn(call.id, execBag)
              /\ \A j \in Answers(session, call.id) :
                    /\ session[j].content.kind = "not_found"
                    /\ session[j].content.text = call.name
              /\ (k < Len(session) => Cardinality(Answers(session, call.id)) = 1)
    /\ fault # "ToolFault"
    /\ RoundProceeds

\* the not-found result of an unknown tool has been appended and the model is due
C5_Witness ==
    /\ Awaiting
    /\ next = "assistant"
    /\ Last(session).content.kind = "not_found"
    /\ Last(session).name = UnknownTool

\* C6: a turn that used up its supersteps ends with an answer returned to main:
\* no rejection, main back at its prompt, an assistant message without tool
\* calls last.
C6_LoopBoundAnswers ==
    (step = RecursionLimit /\ ~Awaiting) =>
        /\ fault = "none"
        /\ mainPc = "read"
        /\ Len(Last(session).tool_calls) = 0
        /\ printed = Last(session).content

\* C7: after a turn that a model fault ended, the session holds one message more
\* than before the turn.
C7_HistoryOnEngineFault ==
    fault = "EngineFault" => Len(session) = lenBefore + 1

\* C8: whatever ended a turn, main is still reading; the loop ends on the
\* sentinel alone.
C8_SessionLoopSurvives ==
    /\ mainPc # "crashed"
    /\ fault # "none" => mainPc \in {"read", "invoke"}

\* the messages the current turn appended
TurnSegment == SubSeq(session, lenBefore + 1, Len(session))

\* from position p on, seg is rounds (an assistant message with calls, then the
\* results of its calls in order) and then one assistant message without calls
RECURSIVE RoundsThenFinal(_, _)
RoundsThenFinal(seg, p) ==
    IF p > Len(seg) \/ seg[p].role # "assistant" THEN FALSE
    ELSE LET n == Len(seg[p].tool_calls) IN
         IF n = 0 THEN p = Len(seg)
         ELSE /\ Len(seg) >= p + n
              /\ \A i \in 1..n :
                    seg[p + i].role = "tool" /\ seg[p + i].tool_call_id = seg[p].tool_calls[i].id
              /\ RoundsThenFinal(seg, p + n + 1)

\* a turn has ended with a final answer
TurnAnswered == turn > 0 /\ mainPc \in {"read", "closed"}

Roles(msgs) == [i \in 1..Len(msgs) |-> msgs[i].role]

\* C9 as stated: an answered turn appended 2 + r + (n_1 + ... + n_r) messages: the
\* user message, the rounds, the final assistant message.
C9_UserRoundsFinal ==
    TurnAnswered =>
        LET seg == TurnSegment IN
        /\ Len(seg) = 2 + Cardinality(Asking(seg)) + CountCalls(seg)
        /\ seg[1].role = "user"
        /\ RoundsThenFinal(seg, 2)

\* C9 amended: an answered turn appended 3 + r + (n_1 + ... + n_r) messages: the
\* system message, the user message, the rounds, the final assistant message; on
\* an empty session one round of one call leaves 5 messages.
C9_MessageAccounting ==
    TurnAnswered =>
        LET seg == TurnSegment IN
        /\ Len(seg) = 3 + Cardinality(Asking(seg)) + CountCalls(seg)
        /\ seg[1].role = "system"
        /\ seg[2].role = "user"
        /\ RoundsThenFinal(seg, 3)
        /\ (lenBefore = 0 /\ Cardinality(Asking(seg)) = 1 /\ CountCalls(seg) = 1)
              => Roles(session) = <<"system", "user", "assistant", "tool", "assistant">>

\* a second turn has ended after two rounds, one of them of two calls
C9_Witness ==
    /\ TurnAnswered
    /\ lenBefore > 0
    /\ Cardinality(Asking(TurnSegment)) = 2
    /\ CountCalls(TurnSegment) = 3

\* C10: at most one agent.invoke is unsettled; while main waits for a line no
\* node is due and no tool call runs; the messages of the session are grouped by
\* turn, in the order of the turns.
C10_TurnsSequential ==
    /\ activeTurns <= 1
    /\ mainPc = "read" => (activeTurns = 0 /\ next = "idle" /\ tasks = <<>>)
    /\ \A i \in 1..(Len(session) - 1) : session[i].turn <= session[i + 1].turn
    /\ \A i \in 1..Len(session) : session[i].turn <= turn

\* the second turn runs its tools after the first turn ended
C10_Witness ==
    /\ turn = 2
    /\ Awaiting
    /\ tasks # <<>>
    /\ session[1].turn = 1
    /\ Last(session).turn = 2


\* C11: a turn is answered exactly when the latest response carries no tool calls:
\* then that response is the last message of the session, nothing is due or
\* running, every tool function that ran has its result in the session before it,
\* and main printed its content; while a turn runs, a response that is the last
\* message carries tool calls and the tools node is due.
C11_FinalAnswerEndsTurn ==
    /\ TurnAnswered =>
          /\ Last(session).role = "assistant"
          /\ Last(session).turn = turn
          /\ Len(Last(session).tool_calls) = 0
          /\ next = "idle" /\ tasks = <<>>
          /\ printed = Last(session).content
          /\ \A id \in BagToSet(execBag) : Cardinality(Answers(session, id)) = 1
    /\ (Awaiting /\ Last(session).role = "assistant") =>
          /\ Len(Last(session).tool_calls) > 0
          /\ next = "tools"

\* a turn with a round of tool calls has been answered and printed
C11_Witness ==
    /\ TurnAnswered
    /\ mainPc = "read"
    /\ printed.kind = "answer"
    /\ Asking(TurnSegment) # {}


IsPrefix(a, b) == Len(a) <= Len(b) /\ SubSeq(b, 1, Len(a)) = a

\* C12: every step leaves the session as it was or extends it at its end (no
\* message removed, reordered or changed), and every call of the model, answered or
\* failed, is handed the whole session, earlier turns included.
C12_AppendOnlyFullHistory ==
    [][/\ IsPrefix(session, session')
       /\ (next = "assistant" /\ (Len(session') = Len(session) + 1 \/ fault' = "EngineFault"))
             => llmInput' = session]_vars

\* in the second turn the model has been called after a round of tool calls, with
\* the first turn's messages in its input
C12_Witness ==
    /\ turn = 2
    /\ Awaiting
    /\ Len(llmInput) > lenBefore + 3
    /\ llmInput[1].turn = 1
    /\ llmInput[Len(llmInput)].role = "tool"


\* a bundle that misses a required field, holds a value of the wrong type, or holds
\* an enum value outside the enum
Malformed(call) ==
    LET sc == ToolSchema(call.name) IN
    \/ \E f \in sc.required : f \notin DOMAIN call.args
    \/ \E f \in (DOMAIN call.args) \cap (sc.required \cup sc.optional \cup sc.enums) :
          call.args[f].t # "string"
    \/ \E f \in (DOMAIN call.args) \cap sc.enums : call.args[f].v \notin VisibilityEnum

\* C13: a call that names a registered tool with a malformed bundle runs no tool
\* function; its result is the invalid-input error, appended once when the round is
\* joined; no tool fault ends the turn and the model is called next.
C13_InvalidArgumentsNotExecuted ==
    /\ \A k \in Asking(session) : \A i \in 1..Len(session[k].tool_calls) :
          LET call == session[k].tool_calls[i] IN
          (call.name \in ToolNames /\ Malformed(call)) =>
              /\ ~BagIn(call.id, execBag)
              /\ \A j \in Answers(session, call.id) :
                    session[j].content.kind = "invalid_input"
              /\ (k < Len(session) => Cardinality(Answers(session, call.id)) = 1)
    /\ fault # "ToolFault"
    /\ RoundProceeds

\* a joined round in which a well-formed call ran its function and a malformed
\* one got the invalid-input error, the model being due
C13_Witness ==
    /\ Awaiting
    /\ next = "assistant"
    /\ Last(session).content.kind = "invalid_input"
    /\ \E k \in Asking(session) :
          /\ k + Len(session[k].tool_calls) = Len(session)
          /\ \E i \in 1..Len(session[k].tool_calls) : BagIn(session[k].tool_calls[i].id, execBag)
          /\ \E i \in 1..Len(session[k].tool_calls) :
                /\ Malformed(session[k].tool_calls[i])
                /\ ~BagIn(session[k].tool_calls[i].id, execBag)


\* the calls of the push tool on the local repository
IsGitStep(op) == op \notin {"users.getAuthenticated", "repos.get"}

\* init, stage all, commit, main checked out (created only when absent), origin
\* removed when present and added, pull, push
PushSteps(env) ==
    <<"git.init", "git.add", "git.commit", "git.branchLocal",
      IF env.hasMain THEN "git.checkout" ELSE "git.checkoutLocalBranch",
      "git.getRemotes">>
    \o (IF env.hasOrigin THEN <<"git.removeRemote">> ELSE <<>>)
    \o <<"git.addRemote", "git.pull", "git.push">>

\* C14: every run of the push tool makes its local steps in the stated order; a
\* step that raised is the last one made unless it is the pull; the run stops
\* short only on a step that raised, with the failure result; a pull that was
\* made is followed by the push; the result is the success one exactly when all
\* steps were made and the push did not raise.
C14_PushStepOrdering ==
    \A r \in runs : r.name = "git-push-files" =>
        LET g == SelectSeq(r.trace, IsGitStep)
            e == PushSteps(r.env)
        IN  /\ IsPrefix(g, e)
            /\ \A i \in 1..(Len(g) - 1) : g[i] \in r.env.raises => g[i] = "git.pull"
            /\ g # e => (r.trace[Len(r.trace)] \in r.env.raises /\ r.kind = "failure")
            /\ (\E i \in 1..Len(g) : g[i] = "git.pull") => g[Len(g)] = "git.push"
            /\ r.kind = "success" <=> (g = e /\ "git.push" \notin r.env.raises)

\* a push run on a repository with main and origin whose pull alone raised has
\* pushed, and its success result is in the session
C14_Witness ==
    /\ next = "assistant"
    /\ \E r \in runs :
          /\ r.name = "git-push-files"
          /\ r.env.raises = {"git.pull"}
          /\ r.env.hasMain /\ r.env.hasOrigin
          /\ r.kind = "success"
          /\ r.trace[Len(r.trace)] = "git.push"
          /\ \E j \in Answers(session, r.id) : session[j].content.kind = "success"


\* C15: a completed run of the update tool whose arguments carry no visibility
\* leaves the repository's visibility as it was.
C15_UpdateLeavesVisibility ==
    \A r \in runs :
        (r.name = "Update-git-repository" /\ "visibility" \notin DOMAIN r.params)
            => r.visibility = r.env.visibility


\* C16: when main leaves its prompt, the line read is the sentinel exactly when
\* the loop closes, and then no turn starts, the engine is not called and the
\* session is as it was; on any other line exactly one turn starts, its user
\* message carrying the line as read.
C16_SentinelHandling ==
    [][(mainPc = "read" /\ mainPc' # "read") =>
          IF lastLine' = Sentinel
          THEN /\ mainPc' = "closed"
               /\ session' = session
               /\ turn' = turn
               /\ activeTurns' = activeTurns
               /\ llmInput' = llmInput
          ELSE /\ mainPc' = "invoke"
               /\ turn' = turn + 1
               /\ activeTurns' = activeTurns + 1
               /\ Len(session') = Len(session) + 2
               /\ Last(session').role = "user"
               /\ Last(session').content.text = lastLine'
               /\ Last(session').turn = turn']_vars

\* the loop has closed on the sentinel after turns started by the empty line and
\* by a variant of the sentinel in case or in blanks
C16_Witness ==
    /\ mainPc = "closed"
    /\ lastLine = Sentinel
    /\ turn = 2
    /\ \E i, j \in 1..Len(session) :
          /\ session[i].role = "user" /\ session[i].content.text \in {"Bye", "bye "}
          /\ session[j].role = "user" /\ session[j].content.text = ""


\* C17: whenever a tool function is invoked, a turn is in flight at the tools
\* node, the session's last message is an assistant message of the current turn,
\* the invocation is for exactly one of that message's tool calls, that call's
\* function has not been invoked before, and no other step invokes one.
C17_NoSpuriousExecution ==
    [][execBag' # execBag =>
          /\ mainPc = "invoke" /\ next = "tools"
          /\ session' = session
          /\ Last(session).role = "assistant"
          /\ Last(session).turn = turn
          /\ \E i \in 1..Len(Last(session).tool_calls) :
                LET id == Last(session).tool_calls[i].id IN
                  /\ ~BagIn(id, execBag)
                  /\ execBag' = execBag (+) SetToBag({id})]_vars

\* in the second turn's second round a tool function has been invoked for a call
\* of the last assistant message, the earlier calls having been invoked once each
C17_Witness ==
    /\ mainPc = "invoke" /\ next = "tools"
    /\ turn = 2
    /\ Rounds(TurnSegment) = 2
    /\ \E i \in 1..Len(Last(session).tool_calls) :
          BagIn(Last(session).tool_calls[i].id, execBag)
    /\ BagCardinality(execBag) >= 3
    /\ \A id \in BagToSet(execBag) : CopiesIn(id, execBag) = 1


OfRole(msgs, role) == {i \in 1..Len(msgs) : msgs[i].role = role}

\* C18: with k turns started the session holds exactly k system messages and k
\* user messages, one of each per turn, each system message immediately before
\* the user message of its turn.
C18_SystemPromptEveryTurn ==
    /\ Cardinality(OfRole(session, "system")) = turn
    /\ Cardinality(OfRole(session, "user")) = turn
    /\ \A t \in 1..turn : \E i \in OfRole(session, "system") : session[i].turn = t
    /\ \A i \in OfRole(session, "system") :
          /\ i < Len(session)
          /\ session[i + 1].role = "user"
          /\ session[i + 1].turn = session[i].turn

\* two turns have been answered, the second after a round of tool calls: the
\* session holds two system messages, the second one opening the second turn
C18_Witness ==
    /\ turn = 2
    /\ TurnAnswered
    /\ mainPc = "read"
    /\ Rounds(TurnSegment) >= 1
    /\ OfRole(session, "system") = {1, lenBefore + 1}
    /\ OfRole(session, "user") = {2, lenBefore + 2}


====
